---- MODULE Spec2Model ----
(***************************************************************************)
(* Citation-graph ingestion of paper_explorer.py: the paper store          *)
(* (papers_db), the edge set (edges) and the handlers that change them     *)
(* (api_add_paper -> process_main_paper -> add_paper_to_db, api_clear)     *)
(* and the read-only handler api_get_papers.                               *)
(***************************************************************************)
EXTENDS Integers, Sequences, FiniteSets, TLC

(* ------------------------------ bounds -------------------------------- *)
\* paper identifiers that requests and provider records range over
NumIds == 3
\* longest reference list and longest citation list of a provider record
MaxList == 1
\* distinct metadata values (title) a provider record can carry
NumTitles == 1
\* add_paper requests served in one behaviour
MaxIngests == 2
\* identifiers and list length of the single-request specification SpecOne
ScenarioIds == 4
ScenarioList == 2
\* longest 'paper_id' string of a request in SpecInput
MaxRaw == 3
\* identifiers and metadata values of SpecMeta
MetaIds == 2
MetaTitles == 2
\* request threads of the server, roots they ask for, identifiers and list length
\* of the records they are answered with
NumThreads == 2
ConcRoots == 2
ConcIds == 3
ConcList == 1
\* requests of one fetch that the provider stands ready to answer
ProviderAnswers == 3

(* --------------------------- program values --------------------------- *)
\* a missing / None / empty 'paperId' (falsy in `if not paper_id`)
NoId == 0
Ids == 1..NumIds
Titles == 1..NumTitles
\* result['paper'] = None
NoPaper == [none |-> TRUE]

\* the space character of a request's paper_id string; identifier k is the
\* one-character string <<k>>
Space == 0

VARIABLES
  papers_db,   \* paper_id -> Paper
  edges,       \* set of sorted (paper_id1, paper_id2) tuples
  req,         \* the last request served: [op, paper_id]
  raw,         \* the 'paper_id' string of the last add_paper request, untrimmed
  requests,    \* outcomes of the provider requests the last call issued
  resp,        \* what the last call's fetch returned: [none, body]
  result,      \* what the last call returned (or that it raised)
  listing,     \* the response of the last request if it was GET /api/papers
  ingests,     \* number of add_paper requests served so far
  cleared_main, \* history: the main papers that the last api_clear removed
  threads      \* per request thread: its position in process_main_paper and locals

vars == <<papers_db, edges, req, raw, requests, resp, result, listing, ingests,
          cleared_main, threads>>

(* ------------------------------ Paper --------------------------------- *)
\* Paper(...) as constructed in add_paper_to_db; title stands for the content
\* fields (title, authors, year, publication_date, citation_count, url)
Paper(paper_data, is_main) ==
  [paper_id     |-> paper_data.paperId,
   title        |-> paper_data.title,
   is_main      |-> is_main,
   edge_count   |-> 0,
   references   |-> <<>>,
   citations    |-> <<>>]

paper_to_dict(paper) ==
  [paper_id        |-> paper.paper_id,
   title           |-> paper.title,
   edge_count      |-> paper.edge_count,
   is_main         |-> paper.is_main,
   reference_count |-> Len(paper.references),
   citing_count    |-> Len(paper.citations)]

EmptyDb == [p \in {} |-> NoPaper]

\* add_paper_to_db refreshing the content of a known paper fetched as main
add_paper_to_db_refresh(db, paper_data, is_main) ==
  LET paper_id == paper_data.paperId IN
  IF paper_id = NoId
    THEN [db |-> db, found |-> FALSE, key |-> NoId]
  ELSE IF paper_id \in DOMAIN db
    THEN [db    |-> IF is_main
                      THEN [db EXCEPT ![paper_id].is_main = TRUE,
                                      ![paper_id].title = paper_data.title]
                      ELSE db,
          found |-> TRUE, key |-> paper_id]
  ELSE [db    |-> db @@ (paper_id :> Paper(paper_data, is_main)),
        found |-> TRUE, key |-> paper_id]

\* add_paper_to_db storing a new Paper over a known one fetched as main
add_paper_to_db_fresh(db, paper_data, is_main) ==
  LET paper_id == paper_data.paperId IN
  IF paper_id = NoId
    THEN [db |-> db, found |-> FALSE, key |-> NoId]
  ELSE IF paper_id \in DOMAIN db /\ ~is_main
    THEN [db |-> db, found |-> TRUE, key |-> paper_id]
  ELSE [db    |-> [p \in DOMAIN db \cup {paper_id} |->
                     IF p = paper_id THEN Paper(paper_data, is_main) ELSE db[p]],
        found |-> TRUE, key |-> paper_id]

\* add_paper_to_db without its `if not paper_id: return None`
add_paper_to_db_unchecked(db, paper_data, is_main) ==
  LET paper_id == paper_data.paperId IN
  IF paper_id \in DOMAIN db
    THEN [db    |-> IF is_main THEN [db EXCEPT ![paper_id].is_main = TRUE] ELSE db,
          found |-> TRUE, key |-> paper_id]
  ELSE [db    |-> db @@ (paper_id :> Paper(paper_data, is_main)),
        found |-> TRUE, key |-> paper_id]

\* add_paper_to_db: returns the new store and the key of the returned Paper
\* (found = FALSE when the function returns None)
add_paper_to_db(db, paper_data, is_main) ==
  LET paper_id == paper_data.paperId IN
  IF paper_id = NoId
    THEN [db |-> db, found |-> FALSE, key |-> NoId]
  ELSE IF paper_id \in DOMAIN db
    THEN [db    |-> IF is_main THEN [db EXCEPT ![paper_id].is_main = TRUE] ELSE db,
          found |-> TRUE, key |-> paper_id]
  ELSE [db    |-> db @@ (paper_id :> Paper(paper_data, is_main)),
        found |-> TRUE, key |-> paper_id]

(* --------------------------- provider fetch --------------------------- *)
\* outcome of one HTTP request: a status code, or a RequestException
Outcomes == {"200", "429", "other", "exception"}

\* the provider's behaviour over the requests of one fetch
Scripts == {<<o>> : o \in Outcomes \ {"429"}} \cup {<<"429", o>> : o \in Outcomes}

NoBody == [paperId |-> NoId, title |-> 0, references |-> <<>>, citations |-> <<>>]

\* the second request made after any first request that did not return 200
fetch_retry_any(script, body) ==
  IF script[1] = "200"
    THEN [requests |-> <<script[1]>>, none |-> FALSE, body |-> body]
  ELSE IF script[1] \in {"429", "other"}
    THEN IF script[2] = "200"
           THEN [requests |-> <<script[1], script[2]>>, none |-> FALSE, body |-> body]
           ELSE [requests |-> <<script[1], script[2]>>, none |-> TRUE, body |-> NoBody]
  ELSE [requests |-> <<script[1]>>, none |-> TRUE, body |-> NoBody]

\* fetch_paper_from_semantic_scholar: the requests issued and the value returned
fetch_paper_from_semantic_scholar(script, body) ==
  IF script[1] = "200"
    THEN [requests |-> <<script[1]>>, none |-> FALSE, body |-> body]
  ELSE IF script[1] = "429"
    THEN IF script[2] = "200"
           THEN [requests |-> <<script[1], script[2]>>, none |-> FALSE, body |-> body]
           ELSE [requests |-> <<script[1], script[2]>>, none |-> TRUE, body |-> NoBody]
  ELSE [requests |-> <<script[1]>>, none |-> TRUE, body |-> NoBody]

(* ------------------------------ merge --------------------------------- *)
\* the pair as given, not sorted
EdgeKey_unsorted(a, b) == <<a, b>>

\* tuple(sorted([paper_id, ref_id]))
EdgeKey(a, b) == IF a <= b THEN <<a, b>> ELSE <<b, a>>

\* the neighbour's record written without the `not in papers_db` test
NeighborUpsert_overwrite(db, ref) ==
  [p \in DOMAIN db \cup {ref.paperId} |->
     IF p = ref.paperId THEN Paper(ref, FALSE) ELSE db[p]]

\* `if ref_id not in papers_db: add_paper_to_db(ref, is_main=False)`
NeighborUpsert(db, ref) ==
  IF ref.paperId \notin DOMAIN db THEN add_paper_to_db(db, ref, FALSE).db ELSE db

\* every edge taken as new
EdgeIsNew_always(edge, es) == TRUE

\* `if edge not in edges`
EdgeIsNew(edge, es) == edge \notin es

\* the sequence assigned instead of appended to
AppendNeighbor_replace(db, main_id, kind, ref_id) ==
  IF kind = "references"
    THEN [db EXCEPT ![main_id].references = <<ref_id>>]
    ELSE [db EXCEPT ![main_id].citations = <<ref_id>>]

\* main_paper.references.append(ref_id) / main_paper.citations.append(cite_id)
AppendNeighbor(db, main_id, kind, ref_id) ==
  IF kind = "references"
    THEN [db EXCEPT ![main_id].references = Append(@, ref_id)]
    ELSE [db EXCEPT ![main_id].citations = Append(@, ref_id)]

\* one iteration of the `for ref in references` / `for cite in citations` loop.
\* st = [db, edges, new_papers, new_edges, raised]; once raised, the KeyError
\* has left the handler and no further iteration runs.
ProcessEntry(st, paper_id, main_id, kind, ref) ==
  IF st.raised \/ ref.paperId = NoId THEN st
  ELSE
    LET ref_id == ref.paperId
        db1    == AppendNeighbor(st.db, main_id, kind, ref_id)
        isNew  == ref_id \notin DOMAIN db1
        db2    == NeighborUpsert(db1, ref)
        np     == st.new_papers + (IF isNew THEN 1 ELSE 0)
        edge   == EdgeKey(paper_id, ref_id)
    IN IF ~EdgeIsNew(edge, st.edges)
         THEN [st EXCEPT !.db = db2, !.new_papers = np]
       ELSE IF paper_id \notin DOMAIN db2
         \* papers_db[paper_id] raises KeyError after edges.add(edge)
         THEN [db |-> db2, edges |-> st.edges \cup {edge}, new_papers |-> np,
               new_edges |-> st.new_edges + 1, raised |-> TRUE]
       ELSE
         LET db3 == [db2 EXCEPT ![paper_id].edge_count = @ + 1]
             db4 == [db3 EXCEPT ![ref_id].edge_count = @ + 1]
         IN [db |-> db4, edges |-> st.edges \cup {edge}, new_papers |-> np,
             new_edges |-> st.new_edges + 1, raised |-> FALSE]

\* the loop left (`break`) at the first entry without identifier
RECURSIVE ProcessList_stop_at_missing(_, _, _, _, _)
ProcessList_stop_at_missing(st, paper_id, main_id, kind, list) ==
  IF list = <<>> \/ Head(list).paperId = NoId THEN st
  ELSE ProcessList_stop_at_missing(ProcessEntry(st, paper_id, main_id, kind, Head(list)),
                                   paper_id, main_id, kind, Tail(list))

RECURSIVE ProcessList(_, _, _, _, _)
ProcessList(st, paper_id, main_id, kind, list) ==
  IF list = <<>> THEN st
  ELSE ProcessList(ProcessEntry(st, paper_id, main_id, kind, Head(list)),
                   paper_id, main_id, kind, Tail(list))

\* the reference loop alone
ProcessNeighbors_references_only(st, paper_id, main_id, paper_data) ==
  ProcessList(st, paper_id, main_id, "references", paper_data.references)

\* the reference loop, then the citation loop
ProcessNeighbors(st, paper_id, main_id, paper_data) ==
  ProcessList(ProcessList(st, paper_id, main_id, "references", paper_data.references),
              paper_id, main_id, "citations", paper_data.citations)

\* no root is taken as already processed
AlreadyMain_never(db, paper_id) == FALSE

\* `if paper_id in papers_db and papers_db[paper_id].is_main`
AlreadyMain(db, paper_id) == paper_id \in DOMAIN db /\ db[paper_id].is_main

Result(success, message, paper, new_papers, new_edges) ==
  [raised |-> FALSE, success |-> success, message |-> message, paper |-> paper,
   new_papers |-> new_papers, new_edges |-> new_edges]

\* the handler left by an unhandled KeyError: no result is returned
Raised == [raised |-> TRUE, success |-> FALSE, message |-> <<"KeyError">>,
           paper |-> NoPaper, new_papers |-> 0, new_edges |-> 0]

\* the early return with result['paper'] left as None
AlreadyAdded_no_paper(db, paper_id) ==
  Result(FALSE, <<"Paper already added">>, NoPaper, 0, 0)

\* the early return of process_main_paper for a root that is already main
AlreadyAdded(db, paper_id) ==
  Result(FALSE, <<"Paper already added">>, paper_to_dict(db[paper_id]), 0, 0)

\* process_main_paper past the already-main check: [db, edges, result]
Merge(db, es, paper_id, fetched) ==
  IF fetched.none
    THEN [db |-> db, edges |-> es,
          result |-> Result(FALSE, <<"Failed to fetch paper from Semantic Scholar">>,
                            NoPaper, 0, 0)]
  ELSE
    LET paper_data == fetched.body
        added      == add_paper_to_db(db, paper_data, TRUE)
    IN IF ~added.found
         THEN [db |-> added.db, edges |-> es,
               result |-> Result(FALSE, <<"Failed to process paper data">>, NoPaper, 0, 0)]
       ELSE
         LET st0 == [db |-> added.db, edges |-> es, new_papers |-> 0,
                     new_edges |-> 0, raised |-> FALSE]
             st2 == ProcessNeighbors(st0, paper_id, added.key, paper_data)
         IN [db |-> st2.db, edges |-> st2.edges,
             result |-> IF st2.raised THEN Raised
                        ELSE Result(TRUE,
                                    <<"Added paper with", Len(paper_data.references),
                                      "references and", Len(paper_data.citations),
                                      "citations">>,
                                    paper_to_dict(st2.db[added.key]),
                                    st2.new_papers, st2.new_edges)]

\* main_papers counted over all papers
stats_all_main(db, es) ==
  [total_papers |-> Cardinality(DOMAIN db),
   main_papers  |-> Cardinality(DOMAIN db),
   total_edges  |-> Cardinality(es)]

\* the stats of api_get_papers
stats(db, es) ==
  [total_papers |-> Cardinality(DOMAIN db),
   main_papers  |-> Cardinality({p \in DOMAIN db : db[p].is_main}),
   total_edges  |-> Cardinality(es)]

\* no GET /api/papers response
NoListing == [papers |-> <<>>, stats |-> [none |-> TRUE]]

\* [paper_to_dict(p) for p in papers_db.values()]; the order of the list is not
\* fixed by the handler's contract, the key order stands for it
RECURSIVE papers_list(_, _)
papers_list(db, keys) ==
  IF keys = {} THEN <<>>
  ELSE LET k == CHOOSE k \in keys : \A j \in keys : k <= j
       IN <<paper_to_dict(db[k])>> \o papers_list(db, keys \ {k})

(* --------------------------- request input ---------------------------- *)
RECURSIVE lstrip(_)
lstrip(str) ==
  IF str = <<>> THEN str
  ELSE IF Head(str) = Space THEN lstrip(Tail(str)) ELSE str

RECURSIVE rstrip(_)
rstrip(str) ==
  IF str = <<>> THEN str
  ELSE IF str[Len(str)] = Space THEN rstrip(SubSeq(str, 1, Len(str) - 1)) ELSE str

\* leading whitespace removed, trailing whitespace kept
strip_left_only(str) == lstrip(str)

\* data.get('paper_id', '').strip()
strip(str) == rstrip(lstrip(str))

\* the identifier a non-empty string names: k for the one-character string
\* <<k>>; every other string is an identifier outside Ids
OtherId == NumIds + 1
PaperIdOf(str) == IF Len(str) = 1 /\ str[1] # Space THEN str[1] ELSE OtherId

(* ------------------------------ inputs -------------------------------- *)
Entries(I, T) == [paperId : I \cup {NoId}, title : T]

Lists(I, T, L) == UNION {[1..n -> Entries(I, T)] : n \in 0..L}

\* provider records: the root's own fields and its reference and citation lists
Bodies(I, T, L) ==
  [paperId : I \cup {NoId}, title : T,
   references : Lists(I, T, L), citations : Lists(I, T, L)]

\* request strings of at most L characters with at most one character that is
\* not a space
RawInputs(I, L) ==
  {str \in UNION {[1..n -> I \cup {Space}] : n \in 0..L} :
     Cardinality({i \in DOMAIN str : str[i] # Space}) <= 1}

(* -------------------------- request threads --------------------------- *)
\* app.run(debug=True) serves each request on a thread of its own
Threads == 1..NumThreads

\* a thread that serves no request yet; detached says that main_paper is an
\* object which papers_db no longer holds
IdleThread ==
  [pc |-> "idle", paper_id |-> NoId, paper_data |-> NoBody, main_key |-> NoId,
   detached |-> FALSE, kind |-> "references", i |-> 1, new_papers |-> 0,
   new_edges |-> 0, outcome |-> "none"]

\* the positions at which the local main_paper is bound
HoldsMain(th) ==
  th.pc \in {"loop", "upsert", "test", "add_edge", "inc_root", "inc_ref", "return"}

\* `papers_db = {}` binds the global to a new dict: a Paper held in a local
\* variable stays alive outside of it
Detach(ths) ==
  [t \in DOMAIN ths |->
     IF HoldsMain(ths[t]) THEN [ths[t] EXCEPT !.detached = TRUE] ELSE ths[t]]

(* ------------------------------ actions ------------------------------- *)
Init ==
  /\ threads = [t \in Threads |-> IdleThread]
  /\ papers_db = EmptyDb
  /\ edges = {}
  /\ req = [op |-> "none", paper_id |-> NoId]
  /\ raw = <<>>
  /\ listing = NoListing
  /\ cleared_main = {}
  /\ requests = <<>>
  /\ resp = [none |-> TRUE, body |-> NoBody]
  /\ result = Result(FALSE, <<>>, NoPaper, 0, 0)
  /\ ingests = 0

\* process_main_paper(paper_id) as called by api_add_paper; script and body are
\* what the provider would answer
process_main_paper(paper_id, script, body) ==
  /\ req' = [op |-> "add_paper", paper_id |-> paper_id]
  /\ IF AlreadyMain(papers_db, paper_id)
       THEN /\ result' = AlreadyAdded(papers_db, paper_id)
            /\ requests' = <<>>
            /\ resp' = [none |-> TRUE, body |-> NoBody]
            /\ UNCHANGED <<papers_db, edges>>
       ELSE \E fetched \in {fetch_paper_from_semantic_scholar(script, body)} :
            \E m \in {Merge(papers_db, edges, paper_id, fetched)} :
               /\ requests' = fetched.requests
               /\ resp' = [none |-> fetched.none, body |-> fetched.body]
               /\ papers_db' = m.db
               /\ edges' = m.edges
               /\ result' = m.result

\* POST /api/add_paper with the 'paper_id' string raw_id (<<>> also when the key
\* is missing); the rejection carries only success and message
api_add_paper(raw_id, script, body) ==
  /\ raw' = raw_id
  /\ UNCHANGED threads
  /\ ingests' = ingests + 1
  /\ listing' = NoListing
  /\ UNCHANGED cleared_main
  /\ \E paper_id \in {strip(raw_id)} :
       IF paper_id = <<>>
         THEN /\ req' = [op |-> "add_paper", paper_id |-> NoId]
              /\ result' = Result(FALSE, <<"Paper ID is required">>, NoPaper, 0, 0)
              /\ requests' = <<>>
              /\ resp' = [none |-> TRUE, body |-> NoBody]
              /\ UNCHANGED <<papers_db, edges>>
         ELSE process_main_paper(PaperIdOf(paper_id), script, body)

\* api_clear with `edges` missing from its `global` statement: the assignment
\* binds a local name and the module's edge set stays
api_clear_store_only ==
  /\ papers_db' = EmptyDb
  /\ req' = [op |-> "clear", paper_id |-> NoId]
  /\ requests' = <<>>
  /\ resp' = [none |-> TRUE, body |-> NoBody]
  /\ result' = Result(TRUE, <<"All data cleared">>, NoPaper, 0, 0)
  /\ raw' = <<>>
  /\ listing' = NoListing
  /\ cleared_main' = {p \in DOMAIN papers_db : papers_db[p].is_main}
  /\ threads' = Detach(threads)
  /\ UNCHANGED <<edges, ingests>>

\* POST /api/clear
api_clear ==
  /\ papers_db' = EmptyDb
  /\ edges' = {}
  /\ req' = [op |-> "clear", paper_id |-> NoId]
  /\ requests' = <<>>
  /\ resp' = [none |-> TRUE, body |-> NoBody]
  /\ result' = Result(TRUE, <<"All data cleared">>, NoPaper, 0, 0)
  /\ raw' = <<>>
  /\ listing' = NoListing
  /\ cleared_main' = {p \in DOMAIN papers_db : papers_db[p].is_main}
  /\ threads' = Detach(threads)
  /\ UNCHANGED ingests

\* GET /api/papers
api_get_papers ==
  /\ listing' = [papers |-> papers_list(papers_db, DOMAIN papers_db),
                 stats  |-> stats(papers_db, edges)]
  /\ req' = [op |-> "papers", paper_id |-> NoId]
  /\ raw' = <<>>
  /\ requests' = <<>>
  /\ resp' = [none |-> TRUE, body |-> NoBody]
  /\ result' = Result(FALSE, <<>>, NoPaper, 0, 0)
  /\ UNCHANGED <<papers_db, edges, ingests, cleared_main, threads>>

\* the provider's record is read only when a request is answered with status 200
Answers(script) == script[Len(script)] = "200"

AddPaper ==
  /\ ingests < MaxIngests
  /\ \E paper_id \in Ids, script \in Scripts :
       \E body \in (IF Answers(script) /\ ~AlreadyMain(papers_db, paper_id)
                      THEN Bodies(Ids, Titles, MaxList) ELSE {NoBody}) :
         api_add_paper(<<paper_id>>, script, body)

Next == AddPaper \/ api_clear

Spec == Init /\ [][Next]_vars

\* one add_paper request on the empty graph, answered with the record of the
\* requested identifier, over more identifiers and longer lists
AddPaperOne ==
  /\ ingests = 0
  /\ \E paper_id \in 1..ScenarioIds :
       \E body \in [paperId : {paper_id}, title : {1},
                     references : Lists(1..ScenarioIds, {1}, ScenarioList),
                     citations : Lists(1..ScenarioIds, {1}, ScenarioList)] :
         api_add_paper(<<paper_id>>, <<"200">>, body)

NextOne == AddPaperOne

SpecOne == Init /\ [][NextOne]_vars

\* the mutating handlers together with the read-only one
SpecQuery == Init /\ [][Next \/ api_get_papers]_vars

\* add_paper requests over untrimmed and blank 'paper_id' strings, answered with
\* the record of the identifier the string contains
AddPaperRaw ==
  /\ ingests < MaxIngests
  /\ \E raw_id \in RawInputs(Ids, MaxRaw), script \in Scripts :
       \E body \in (IF Answers(script)
                      THEN [paperId : {raw_id[i] : i \in DOMAIN raw_id} \ {Space},
                            title : Titles,
                            references : Lists(Ids, Titles, MaxList),
                            citations : {<<>>}]
                      ELSE {NoBody}) :
         api_add_paper(raw_id, script, body)

NextInput == AddPaperRaw \/ api_clear

SpecInput == Init /\ [][NextInput]_vars

\* add_paper requests whose records carry differing metadata
AddPaperMeta ==
  /\ ingests < MaxIngests
  /\ \E paper_id \in 1..MetaIds, script \in Scripts :
       \E body \in (IF Answers(script) /\ ~AlreadyMain(papers_db, paper_id)
                      THEN Bodies(1..MetaIds, 1..MetaTitles, MaxList) ELSE {NoBody}) :
         api_add_paper(<<paper_id>>, script, body)

NextMeta == AddPaperMeta \/ api_clear

SpecMeta == Init /\ [][NextMeta]_vars

\* add_paper requests against a provider that would answer ProviderAnswers
\* requests of one fetch, each with any outcome; the record is that of the
\* requested identifier
AddPaperFetch ==
  /\ ingests < MaxIngests
  /\ \E paper_id \in Ids, script \in [1..ProviderAnswers -> Outcomes] :
       \E body \in (IF AlreadyMain(papers_db, paper_id)
                        \/ fetch_paper_from_semantic_scholar(script, NoBody).none
                      THEN {NoBody}
                      ELSE [paperId : {paper_id}, title : Titles,
                            references : Lists(Ids, Titles, MaxList),
                            citations : {<<>>}]) :
         api_add_paper(<<paper_id>>, script, body)

NextFetch == AddPaperFetch \/ api_clear

SpecFetch == Init /\ [][NextFetch]_vars

(* ------------------ process_main_paper, statement by statement --------- *)
\* The code takes no lock. Each action below is one statement (or one test with
\* the assignment it guards) of process_main_paper run by thread t; the
\* interpreter may switch threads between any two of them.

\* what a thread step leaves alone
ThreadFrame ==
  UNCHANGED <<req, raw, requests, resp, result, listing, ingests, cleared_main>>

\* the current list of thread th and its current entry
CurList(th) ==
  IF th.kind = "references" THEN th.paper_data.references ELSE th.paper_data.citations

CurRef(th) == CurList(th)[th.i]

\* the provider's records for root r: paperId is r, the lists name other papers
ConcBodies(r) ==
  [paperId : {r}, title : Titles,
   references : UNION {[1..n -> [paperId : (1..ConcIds) \ {r}, title : Titles]]
                         : n \in 0..ConcList},
   citations  : UNION {[1..n -> [paperId : (1..ConcIds) \ {r}, title : Titles]]
                         : n \in 0..ConcList}]

\* api_add_paper hands a non-empty identifier to process_main_paper
T_start(t) ==
  /\ threads[t].pc = "idle"
  /\ \E paper_id \in 1..ConcRoots :
       threads' = [threads EXCEPT ![t].pc = "check", ![t].paper_id = paper_id]
  /\ UNCHANGED <<papers_db, edges>>
  /\ ThreadFrame

\* `if paper_id in papers_db and papers_db[paper_id].is_main: ... return result`
T_check(t) ==
  /\ threads[t].pc = "check"
  /\ threads' = IF AlreadyMain(papers_db, threads[t].paper_id)
                  THEN [threads EXCEPT ![t].pc = "done", ![t].outcome = "already"]
                  ELSE [threads EXCEPT ![t].pc = "fetch"]
  /\ UNCHANGED <<papers_db, edges>>
  /\ ThreadFrame

\* `paper_data = fetch_paper_from_semantic_scholar(paper_id)`; `if not paper_data`
T_fetch(t) ==
  /\ threads[t].pc = "fetch"
  /\ \/ threads' = [threads EXCEPT ![t].pc = "done", ![t].outcome = "fetch_failed"]
     \/ \E body \in ConcBodies(threads[t].paper_id) :
          threads' = [threads EXCEPT ![t].pc = "add_main", ![t].paper_data = body]
  /\ UNCHANGED <<papers_db, edges>>
  /\ ThreadFrame

\* `main_paper = add_paper_to_db(paper_data, is_main=True)`; `if not main_paper`
T_add_main(t) ==
  /\ threads[t].pc = "add_main"
  /\ \E added \in {add_paper_to_db(papers_db, threads[t].paper_data, TRUE)} :
       /\ papers_db' = added.db
       /\ threads' = IF added.found
                       THEN [threads EXCEPT ![t].pc = "loop",
                                            ![t].main_key = added.key,
                                            ![t].detached = FALSE,
                                            ![t].kind = "references", ![t].i = 1]
                       ELSE [threads EXCEPT ![t].pc = "done",
                                            ![t].outcome = "process_failed"]
  /\ UNCHANGED edges
  /\ ThreadFrame

\* the head of a loop: `for ref in references:`, `ref_id = ref.get('paperId')`,
\* `if ref_id:` and `main_paper.references.append(ref_id)` (same for citations)
T_loop(t) ==
  LET th == threads[t] IN
  /\ th.pc = "loop"
  /\ IF th.i > Len(CurList(th))
       THEN /\ threads' = IF th.kind = "references"
                            THEN [threads EXCEPT ![t].kind = "citations", ![t].i = 1]
                            ELSE [threads EXCEPT ![t].pc = "return"]
            /\ UNCHANGED papers_db
     ELSE IF CurRef(th).paperId = NoId
       THEN /\ threads' = [threads EXCEPT ![t].i = th.i + 1]
            /\ UNCHANGED papers_db
     ELSE /\ threads' = [threads EXCEPT ![t].pc = "upsert"]
          /\ papers_db' = IF th.detached THEN papers_db
                          ELSE AppendNeighbor(papers_db, th.main_key, th.kind,
                                              CurRef(th).paperId)
  /\ UNCHANGED edges
  /\ ThreadFrame

\* `if ref_id not in papers_db: add_paper_to_db(ref, is_main=False); new_papers += 1`
T_upsert(t) ==
  LET th == threads[t] IN
  /\ th.pc = "upsert"
  /\ papers_db' = NeighborUpsert(papers_db, CurRef(th))
  /\ threads' = [threads EXCEPT ![t].pc = "test",
                   ![t].new_papers = IF CurRef(th).paperId \in DOMAIN papers_db
                                       THEN th.new_papers ELSE th.new_papers + 1]
  /\ UNCHANGED edges
  /\ ThreadFrame

\* `edge = tuple(sorted([paper_id, ref_id]))`; `if edge not in edges:`
T_test(t) ==
  LET th == threads[t] IN
  /\ th.pc = "test"
  /\ threads' = IF EdgeIsNew(EdgeKey(th.paper_id, CurRef(th).paperId), edges)
                  THEN [threads EXCEPT ![t].pc = "add_edge"]
                  ELSE [threads EXCEPT ![t].pc = "loop", ![t].i = th.i + 1]
  /\ UNCHANGED <<papers_db, edges>>
  /\ ThreadFrame

\* `edges.add(edge)`; `new_edges += 1`
T_add_edge(t) ==
  LET th == threads[t] IN
  /\ th.pc = "add_edge"
  /\ edges' = edges \cup {EdgeKey(th.paper_id, CurRef(th).paperId)}
  /\ threads' = [threads EXCEPT ![t].pc = "inc_root",
                                ![t].new_edges = th.new_edges + 1]
  /\ UNCHANGED papers_db
  /\ ThreadFrame

\* `papers_db[paper_id].edge_count += 1`; KeyError leaves the handler
T_inc_root(t) ==
  LET th == threads[t] IN
  /\ th.pc = "inc_root"
  /\ IF th.paper_id \in DOMAIN papers_db
       THEN /\ papers_db' = [papers_db EXCEPT ![th.paper_id].edge_count = @ + 1]
            /\ threads' = [threads EXCEPT ![t].pc = "inc_ref"]
       ELSE /\ UNCHANGED papers_db
            /\ threads' = [threads EXCEPT ![t].pc = "done", ![t].outcome = "raised"]
  /\ UNCHANGED edges
  /\ ThreadFrame

\* `papers_db[ref_id].edge_count += 1`; KeyError leaves the handler
T_inc_ref(t) ==
  LET th == threads[t]
      ref_id == CurRef(th).paperId IN
  /\ th.pc = "inc_ref"
  /\ IF ref_id \in DOMAIN papers_db
       THEN /\ papers_db' = [papers_db EXCEPT ![ref_id].edge_count = @ + 1]
            /\ threads' = [threads EXCEPT ![t].pc = "loop", ![t].i = th.i + 1]
       ELSE /\ UNCHANGED papers_db
            /\ threads' = [threads EXCEPT ![t].pc = "done", ![t].outcome = "raised"]
  /\ UNCHANGED edges
  /\ ThreadFrame

\* a return that waits until no other request is being served
T_return_waits(t) ==
  /\ threads[t].pc = "return"
  /\ \A u \in Threads \ {t} : threads[u].pc \in {"idle", "done"}
  /\ threads' = [threads EXCEPT ![t].pc = "done", ![t].outcome = "success"]
  /\ UNCHANGED <<papers_db, edges>>
  /\ UNCHANGED <<req, raw, requests, resp, result, listing, ingests, cleared_main>>

\* `result['success'] = True` ... `return result`
T_return(t) ==
  /\ threads[t].pc = "return"
  /\ threads' = [threads EXCEPT ![t].pc = "done", ![t].outcome = "success"]
  /\ UNCHANGED <<papers_db, edges>>
  /\ ThreadFrame

ThreadStep(t) ==
  \/ T_start(t) \/ T_check(t) \/ T_fetch(t) \/ T_add_main(t) \/ T_loop(t)
  \/ T_upsert(t) \/ T_test(t) \/ T_add_edge(t) \/ T_inc_root(t) \/ T_inc_ref(t)
  \/ T_return(t)

\* add_paper requests served concurrently, no reset
NextRace == \E t \in Threads : ThreadStep(t)

SpecRace == Init /\ [][NextRace]_vars

\* one add_paper request and resets served concurrently
NextResetRace == ThreadStep(1) \/ api_clear

SpecResetRace == Init /\ [][NextResetRace]_vars

\* add_paper requests served concurrently, where the interpreter gives every
\* thread that can run a turn again and again
SpecLive == Init /\ [][NextRace]_vars /\ \A t \in Threads : WF_vars(ThreadStep(t))

(* ---------------------------- properties ------------------------------ *)
\* helpers of the properties, written from the claims and independent of the
\* operators of the model
Range(seq) == {seq[i] : i \in DOMAIN seq}

IdsOf(list) == {list[i].paperId : i \in DOMAIN list} \ {NoId}

IdSeq(list) == [i \in DOMAIN list |-> list[i].paperId]

Degree(p, es) == Cardinality({e \in es : e[1] = p \/ e[2] = p})

Contains(a, b) == (IF a <= b THEN <<a, b>> ELSE <<b, a>>) \in edges

\* this step served an add_paper request
AddPaperStep == req'.op = "add_paper" /\ ingests' = ingests + 1

\* this step served an add_paper request for a root that was stored and main
ShortCircuitStep ==
  /\ AddPaperStep
  /\ req'.paper_id \in DOMAIN papers_db
  /\ papers_db[req'.paper_id].is_main

\* C1: every stored Paper's edge_count equals the number of Edge Set entries that
\* contain its paper_id, in every state whose last call completed
CounterConsistency ==
  ~result.raised =>
    \A p \in DOMAIN papers_db : papers_db[p].edge_count = Degree(p, edges)

\* C2: an add_paper request for a root that is already main issues no provider
\* request, reports 0 new papers and 0 new edges, and leaves papers_db and edges
\* as they were
IdempotentReingest ==
  [][ShortCircuitStep =>
       /\ requests' = <<>>
       /\ result'.new_papers = 0
       /\ result'.new_edges = 0
       /\ papers_db' = papers_db
       /\ edges' = edges]_vars

\* C2 witness: a main root with recorded references and edges was requested again
IdempotentReingestWitness ==
  /\ req.op = "add_paper"
  /\ requests = <<>>
  /\ req.paper_id \in DOMAIN papers_db
  /\ papers_db[req.paper_id].is_main
  /\ Len(papers_db[req.paper_id].references) > 0
  /\ edges # {}

\* C3: an add_paper request whose fetch returns nothing, or a record without an
\* identifier, returns success = false and leaves papers_db, edges and the stats
\* as they were
FailureAtomic ==
  [][(/\ AddPaperStep
      /\ requests' # <<>>
      /\ (resp'.none \/ resp'.body.paperId = NoId)) =>
       /\ ~result'.raised
       /\ result'.success = FALSE
       /\ papers_db' = papers_db
       /\ edges' = edges
       /\ stats(papers_db', edges') = stats(papers_db, edges)]_vars

\* C3 witness: on a non-empty graph, the provider answered with a record that has
\* no identifier but a non-empty reference or citation list
FailureAtomicWitness ==
  /\ req.op = "add_paper"
  /\ requests # <<>>
  /\ ~resp.none
  /\ resp.body.paperId = NoId
  /\ IdsOf(resp.body.references) \cup IdsOf(resp.body.citations) # {}
  /\ DOMAIN papers_db # {}
  /\ ~result.success

\* C4: both identifiers of every Edge Set entry are keys of papers_db
EdgeEndpointsStored ==
  \A e \in edges : e[1] \in DOMAIN papers_db /\ e[2] \in DOMAIN papers_db

\* C5: every Edge Set entry is in sorted order and no two entries represent the
\* same unordered pair
NoDuplicateEdges ==
  \A e \in edges :
    /\ e[1] <= e[2]
    /\ \A f \in edges : {e[1], e[2]} = {f[1], f[2]} => e = f

\* C5 witness: a pair was added from both sides, a as root with neighbour b and b
\* as root with neighbour a
NoDuplicateEdgesWitness ==
  \E a, b \in DOMAIN papers_db :
    /\ a < b
    /\ <<a, b>> \in edges
    /\ papers_db[a].is_main /\ papers_db[b].is_main
    /\ b \in Range(papers_db[a].references) \cup Range(papers_db[a].citations)
    /\ a \in Range(papers_db[b].references) \cup Range(papers_db[b].citations)
    /\ papers_db[a].edge_count = 1 /\ papers_db[b].edge_count = 1

\* C6: a Paper with is_main = true is still stored with is_main = true after
\* every step that is not a reset
StickyMain ==
  [][req'.op # "clear" =>
       \A p \in DOMAIN papers_db :
         papers_db[p].is_main => (p \in DOMAIN papers_db' /\ papers_db'[p].is_main)]_vars

\* C6 witness: a paper that was main before the last request was met in it as a
\* reference or citation of another root, and is still main
StickyMainWitness ==
  /\ req.op = "add_paper"
  /\ result.success
  /\ \E p \in DOMAIN papers_db :
       /\ p # req.paper_id
       /\ p # resp.body.paperId
       /\ p \in IdsOf(resp.body.references) \cup IdsOf(resp.body.citations)
       /\ papers_db[p].is_main

\* C7 as stated: the short-circuit path returns success = true with 0 new papers,
\* 0 new edges and the projection of the existing record
ShortCircuitReturnsSuccess ==
  [][ShortCircuitStep =>
       /\ result'.success = TRUE
       /\ result'.new_papers = 0
       /\ result'.new_edges = 0
       /\ result'.paper = paper_to_dict(papers_db[req'.paper_id])]_vars

\* C7 as amended: the short-circuit path returns success = false with the message
\* 'Paper already added', 0 new papers, 0 new edges and the projection of the
\* existing record
ShortCircuitResult ==
  [][ShortCircuitStep =>
       /\ ~result'.raised
       /\ result'.success = FALSE
       /\ result'.message = <<"Paper already added">>
       /\ result'.new_papers = 0
       /\ result'.new_edges = 0
       /\ result'.paper = paper_to_dict(papers_db[req'.paper_id])]_vars

\* C7 witness: the short-circuit path returned the projection of a root that has
\* edges
ShortCircuitResultWitness ==
  /\ req.op = "add_paper"
  /\ requests = <<>>
  /\ result.paper # NoPaper
  /\ result.paper.paper_id = req.paper_id
  /\ result.paper.is_main
  /\ result.paper.edge_count > 0

\* C8: on the empty graph, a root R with references [A, B] and citations [B, C]
\* gives 4 papers, 3 new papers, the 3 edges R-A, R-B, R-C, 3 new edges,
\* R.edge_count = 3, B.edge_count = 1, 1 main paper, reference_count = 2 and
\* citing_count = 2; B is recorded in both of R's sequences
ScenarioBothLists ==
  \A R, A, B, C \in 1..ScenarioIds :
    (/\ Cardinality({R, A, B, C}) = 4
     /\ req = [op |-> "add_paper", paper_id |-> R]
     /\ ~resp.none
     /\ resp.body.paperId = R
     /\ IdSeq(resp.body.references) = <<A, B>>
     /\ IdSeq(resp.body.citations) = <<B, C>>) =>
      /\ result.success
      /\ DOMAIN papers_db = {R, A, B, C}
      /\ result.new_papers = 3
      /\ \A e \in edges : e[1] <= e[2]
      /\ {{e[1], e[2]} : e \in edges} = {{R, A}, {R, B}, {R, C}}
      /\ Cardinality(edges) = 3
      /\ result.new_edges = 3
      /\ papers_db[R].edge_count = 3
      /\ papers_db[A].edge_count = 1
      /\ papers_db[B].edge_count = 1
      /\ papers_db[C].edge_count = 1
      /\ stats(papers_db, edges) =
           [total_papers |-> 4, main_papers |-> 1, total_edges |-> 3]
      /\ papers_db[R].references = <<A, B>>
      /\ papers_db[R].citations = <<B, C>>
      /\ result.paper.reference_count = 2
      /\ result.paper.citing_count = 2
      /\ result.paper.edge_count = 3

\* C8 witness: the scenario with R = 1, A = 2, B = 3, C = 4 has been served
ScenarioBothListsWitness ==
  /\ req = [op |-> "add_paper", paper_id |-> 1]
  /\ ~resp.none
  /\ resp.body.paperId = 1
  /\ IdSeq(resp.body.references) = <<2, 3>>
  /\ IdSeq(resp.body.citations) = <<3, 4>>
  /\ result.success

\* C9: after a successful add_paper request for x, every identifier y of the
\* provider's reference and citation lists is a key of papers_db and the pair
\* {x, y} is in the Edge Set, whichever way round it is looked up
NeighbourCoverage ==
  (req.op = "add_paper" /\ result.success) =>
    \A y \in IdsOf(resp.body.references) \cup IdsOf(resp.body.citations) :
      /\ y \in DOMAIN papers_db
      /\ Contains(req.paper_id, y)
      /\ Contains(y, req.paper_id)

\* C9 witness: a successful request whose root has a reference with a smaller
\* identifier and a citation with a larger one
NeighbourCoverageWitness ==
  /\ req.op = "add_paper"
  /\ result.success
  /\ \E y \in IdsOf(resp.body.references) : y < req.paper_id
  /\ \E y \in IdsOf(resp.body.citations) : y > req.paper_id

\* C10: after a successful add_paper request for x, papers_db holds x with
\* is_main = true
RootIsMainAfterSuccess ==
  (req.op = "add_paper" /\ result.success) =>
    (req.paper_id \in DOMAIN papers_db /\ papers_db[req.paper_id].is_main)

IsPrefix(old, new) == Len(old) <= Len(new) /\ SubSeq(new, 1, Len(old)) = old

\* the characters of the last request string that are not spaces
RawChars == {raw[i] : i \in DOMAIN raw} \ {Space}

\* C11: api_clear always returns success and leaves papers_db and edges empty, so
\* that the stats are 0, 0, 0 and the paper list is empty; an add_paper request
\* right after it for a root the reset removed as main issues a provider request
\* and does not take the already-added path
ResetEmpties ==
  [][/\ req'.op = "clear" =>
          /\ ~result'.raised /\ result'.success
          /\ papers_db' = EmptyDb
          /\ edges' = {}
          /\ stats(papers_db', edges') =
               [total_papers |-> 0, main_papers |-> 0, total_edges |-> 0]
          /\ papers_list(papers_db', DOMAIN papers_db') = <<>>
     /\ (AddPaperStep /\ req.op = "clear" /\ req'.paper_id \in cleared_main) =>
          /\ requests' # <<>>
          /\ result'.message # <<"Paper already added">>]_vars

\* C11 witness: a root that the reset removed as main has been requested again
\* and fetched again
ResetEmptiesWitness ==
  /\ req.op = "add_paper"
  /\ req.paper_id \in cleared_main
  /\ requests # <<>>
  /\ result.success
  /\ ingests = 2

\* C12: an add_paper request whose string is empty or all spaces is rejected
\* without a provider request and without a change of papers_db and edges; any
\* other string reaches process_main_paper as its one character that is not a
\* space
InputValidation ==
  [][AddPaperStep =>
       LET chars == {raw'[i] : i \in DOMAIN raw'} \ {Space} IN
       IF chars = {}
         THEN /\ ~result'.raised /\ result'.success = FALSE
              /\ result'.message = <<"Paper ID is required">>
              /\ req'.paper_id = NoId
              /\ requests' = <<>>
              /\ papers_db' = papers_db
              /\ edges' = edges
         ELSE req'.paper_id \in chars]_vars

\* C12 witness: on a non-empty graph a string of two or more spaces was rejected
InputValidationWitness ==
  /\ req.op = "add_paper"
  /\ Len(raw) >= 2
  /\ RawChars = {}
  /\ DOMAIN papers_db # {}
  /\ ~result.success

\* C13: every add_paper request returns a result, and one that does not return
\* success leaves papers_db and edges as they were
StructuredResultAlways ==
  [][AddPaperStep =>
       /\ ~result'.raised
       /\ (~result'.success => (papers_db' = papers_db /\ edges' = edges))]_vars

\* C16: GET /api/papers leaves papers_db and edges as they were, lists one
\* projection per stored Paper with reference_count and citing_count the lengths
\* of its sequences, and reports the number of papers, of main papers and of edges
QueryIsPureRead ==
  [][req'.op = "papers" =>
       /\ papers_db' = papers_db
       /\ edges' = edges
       /\ Len(listing'.papers) = Cardinality(DOMAIN papers_db)
       /\ \A p \in DOMAIN papers_db :
            Cardinality({i \in DOMAIN listing'.papers :
                           listing'.papers[i].paper_id = p}) = 1
       /\ \A i \in DOMAIN listing'.papers :
            LET d == listing'.papers[i] IN
            /\ d.paper_id \in DOMAIN papers_db
            /\ d.title = papers_db[d.paper_id].title
            /\ d.edge_count = papers_db[d.paper_id].edge_count
            /\ d.is_main = papers_db[d.paper_id].is_main
            /\ d.reference_count = Len(papers_db[d.paper_id].references)
            /\ d.citing_count = Len(papers_db[d.paper_id].citations)
       /\ listing'.stats.total_papers = Cardinality(DOMAIN papers_db)
       /\ listing'.stats.main_papers =
            Cardinality({p \in DOMAIN papers_db : papers_db[p].is_main})
       /\ listing'.stats.main_papers <= listing'.stats.total_papers
       /\ listing'.stats.total_edges = Cardinality(edges)]_vars

\* C16 witness: a listing of a graph with a main paper that has references and a
\* paper that is not main
QueryIsPureReadWitness ==
  /\ req.op = "papers"
  /\ Len(listing.papers) >= 2
  /\ listing.stats.main_papers >= 1
  /\ listing.stats.main_papers < listing.stats.total_papers
  /\ listing.stats.total_edges >= 1
  /\ \E i \in DOMAIN listing.papers : listing.papers[i].reference_count > 0

\* C17: no Edge Set entry has two equal endpoints
NoSelfLoops == \A e \in edges : e[1] # e[2]

\* C18: a successful add_paper request grows the Edge Set by new_edges, and the
\* store by new_papers, plus 1 if the requested root had no record before
GrowthMatchesCounts ==
  [][(AddPaperStep /\ result'.success) =>
       /\ Cardinality(edges') - Cardinality(edges) = result'.new_edges
       /\ Cardinality(DOMAIN papers_db') - Cardinality(DOMAIN papers_db) =
            result'.new_papers
              + (IF req'.paper_id \in DOMAIN papers_db THEN 0 ELSE 1)]_vars

\* C19: a stored Paper keeps its paper_id and its content (title) through every
\* step that is not a reset
ContentFirstWriteWins ==
  [][req'.op # "clear" =>
       \A p \in DOMAIN papers_db :
         /\ p \in DOMAIN papers_db'
         /\ papers_db'[p].paper_id = papers_db[p].paper_id
         /\ papers_db'[p].paper_id = p
         /\ papers_db'[p].title = papers_db[p].title]_vars

\* C19 witness: the last request was answered with a record whose root and whose
\* neighbour were both stored before with other metadata, which they keep
ContentFirstWriteWinsWitness ==
  /\ req.op = "add_paper"
  /\ result.success
  /\ resp.body.paperId \in DOMAIN papers_db
  /\ papers_db[resp.body.paperId].title # resp.body.title
  /\ \E i \in DOMAIN resp.body.references :
       LET r == resp.body.references[i] IN
       /\ r.paperId \in DOMAIN papers_db
       /\ r.paperId # resp.body.paperId
       /\ papers_db[r.paperId].title # r.title

\* C20 as stated: a step that is not a reset changes nothing of a stored Paper
\* but is_main (to true) and edge_count (upwards)
OnlyFlagAndCounterChange ==
  [][req'.op # "clear" =>
       \A p \in DOMAIN papers_db :
         /\ p \in DOMAIN papers_db'
         /\ (papers_db[p].is_main => papers_db'[p].is_main)
         /\ papers_db'[p].edge_count >= papers_db[p].edge_count
         /\ papers_db'[p].paper_id = papers_db[p].paper_id
         /\ papers_db'[p].title = papers_db[p].title
         /\ papers_db'[p].references = papers_db[p].references
         /\ papers_db'[p].citations = papers_db[p].citations]_vars

\* C20 as amended: a step that is not a reset changes nothing of a stored Paper
\* but is_main (to true), edge_count (upwards) and, for the paper the provider's
\* record names as root, references and citations, which are only appended to
RecordUpdatesLimited ==
  [][req'.op # "clear" =>
       \A p \in DOMAIN papers_db :
         /\ p \in DOMAIN papers_db'
         /\ (papers_db[p].is_main => papers_db'[p].is_main)
         /\ papers_db'[p].edge_count >= papers_db[p].edge_count
         /\ papers_db'[p].paper_id = papers_db[p].paper_id
         /\ papers_db'[p].title = papers_db[p].title
         /\ IsPrefix(papers_db[p].references, papers_db'[p].references)
         /\ IsPrefix(papers_db[p].citations, papers_db'[p].citations)
         /\ (\/ papers_db'[p].references # papers_db[p].references
             \/ papers_db'[p].citations # papers_db[p].citations)
              => (req'.op = "add_paper" /\ ~resp'.none /\ resp'.body.paperId = p)]_vars

\* C20 witness: a paper stored before as a neighbour (it keeps metadata other
\* than the record's) was fetched as root and has received the record's
\* references
RecordUpdatesLimitedWitness ==
  /\ req.op = "add_paper"
  /\ result.success
  /\ resp.body.paperId \in DOMAIN papers_db
  /\ papers_db[resp.body.paperId].title # resp.body.title
  /\ papers_db[resp.body.paperId].references # <<>>
  /\ papers_db[resp.body.paperId].references =
       [i \in DOMAIN resp.body.references |-> resp.body.references[i].paperId]
  /\ papers_db[resp.body.paperId].edge_count >= 1

\* C14: when all concurrently served add_paper requests have ended, none has
\* raised and every stored Paper's edge_count is the number of Edge Set entries
\* that contain its id
RaceFreeIngests ==
  (\A t \in Threads : threads[t].pc = "done") =>
     /\ \A t \in Threads : threads[t].outcome # "raised"
     /\ \A p \in DOMAIN papers_db : papers_db[p].edge_count = Degree(p, edges)

\* C15: when an add_paper request served concurrently with resets has ended, it
\* has not raised, every edge endpoint is stored and every stored Paper's
\* edge_count is the number of Edge Set entries that contain its id
ResetExclusive ==
  (threads[1].pc = "done" /\ req.op = "clear") =>
     /\ threads[1].outcome # "raised"
     /\ \A e \in edges : e[1] \in DOMAIN papers_db /\ e[2] \in DOMAIN papers_db
     /\ \A p \in DOMAIN papers_db : papers_db[p].edge_count = Degree(p, edges)

\* the entries of a provider list that carry an identifier, in provider order
WithIds(list) == SelectSeq(list, LAMBDA e : e.paperId # NoId)

\* C21: an add_paper request that fetched a record leaves papers_db and edges, and
\* returns new_papers and new_edges, as the same record without its entries that
\* lack an identifier would; no Paper, edge end or references/citations element
\* is the missing identifier
MissingIdsSkipped ==
  [][(AddPaperStep /\ ~resp'.none) =>
       LET kept == [resp'.body EXCEPT !.references = WithIds(@),
                                      !.citations = WithIds(@)]
           m == Merge(papers_db, edges, req'.paper_id,
                      [none |-> FALSE, body |-> kept, requests |-> requests'])
       IN /\ papers_db' = m.db
          /\ edges' = m.edges
          /\ result'.raised = m.result.raised
          /\ result'.success = m.result.success
          /\ result'.new_papers = m.result.new_papers
          /\ result'.new_edges = m.result.new_edges
          /\ NoId \notin DOMAIN papers_db'
          /\ \A e \in edges' : e[1] # NoId /\ e[2] # NoId
          /\ \A p \in DOMAIN papers_db' :
               /\ NoId \notin Range(papers_db'[p].references)
               /\ NoId \notin Range(papers_db'[p].citations)]_vars

\* C21 witness: the record's reference list had an entry without identifier
\* followed by one with identifier, and only the second was stored and linked
MissingIdsSkippedWitness ==
  /\ req.op = "add_paper"
  /\ result.success
  /\ Len(resp.body.references) = 2
  /\ resp.body.references[1].paperId = NoId
  /\ resp.body.references[2].paperId \notin {NoId, req.paper_id}
  /\ resp.body.citations = <<>>
  /\ papers_db[req.paper_id].references = <<resp.body.references[2].paperId>>
  /\ resp.body.references[2].paperId \in DOMAIN papers_db
  /\ Cardinality(edges) = 1
  /\ result.new_papers = 1
  /\ result.new_edges = 1

\* C22: an add_paper request issues at most two provider requests; it issues a
\* second one exactly when the first returned 429; the fetch returns a record
\* exactly when its last request returned 200, and no request follows a 200
BoundedRetry ==
  [][AddPaperStep =>
       /\ Len(requests') <= 2
       /\ (Len(requests') = 2 <=> (requests' # <<>> /\ requests'[1] = "429"))
       /\ (requests' # <<>> => (resp'.none <=> requests'[Len(requests')] # "200"))
       /\ (requests' = <<>> => resp'.none)]_vars

\* C22 witness: the first and the second request were both rate limited, the
\* fetch failed and the provider's third answer was not asked for
BoundedRetryWitness ==
  /\ req.op = "add_paper"
  /\ requests = <<"429", "429">>
  /\ resp.none
  /\ ~result.success
  /\ result.message = <<"Failed to fetch paper from Semantic Scholar">>

ListsOnlyOnMain ==
  /\ \A p \in DOMAIN papers_db :
       ~papers_db[p].is_main =>
          (papers_db[p].references = <<>> /\ papers_db[p].citations = <<>>)
  /\ (req.op = "add_paper" /\ result.success /\ ~resp.none) =>
       /\ req.paper_id \in DOMAIN papers_db
       /\ papers_db[req.paper_id].references = IdSeq(WithIds(resp.body.references))
       /\ papers_db[req.paper_id].citations = IdSeq(WithIds(resp.body.citations))

\* C25: a step that is not a reset removes no Paper and no Edge Set entry and
\* lowers no edge_count
MonotoneGrowth ==
  [][req'.op # "clear" =>
       /\ DOMAIN papers_db \subseteq DOMAIN papers_db'
       /\ edges \subseteq edges'
       /\ \A p \in DOMAIN papers_db :
            papers_db'[p].edge_count >= papers_db[p].edge_count]_vars

\* C25 witness: a paper that was stored as a neighbour, with its edge, has been
\* fetched as root; the edge to its neighbour was there already and it keeps its
\* edge_count
MonotoneGrowthWitness ==
  /\ req.op = "add_paper"
  /\ result.success
  /\ ~resp.none
  /\ result.new_edges = 0
  /\ \E i \in DOMAIN resp.body.references :
       resp.body.references[i].paperId \notin {NoId, req.paper_id}
  /\ req.paper_id \in DOMAIN papers_db
  /\ papers_db[req.paper_id].is_main
  /\ papers_db[req.paper_id].edge_count >= 1

\* C26: every Edge Set entry has an endpoint that is stored with is_main, and
\* every stored Paper that is not main has edge_count >= 1
StarStructure ==
  /\ \A e \in edges :
       \E x \in {e[1], e[2]} : x \in DOMAIN papers_db /\ papers_db[x].is_main
  /\ \A p \in DOMAIN papers_db :
       ~papers_db[p].is_main => papers_db[p].edge_count >= 1

====
